---- MODULE Spec2Model ----
(***************************************************************************)
(* Model of helper/staking/staking.go: the genesis storage builder        *)
(* PredeployStakingSC with its storage-index helpers, and the artifact     *)
(* path GenerateGenesisAccountFromFile.                                    *)
(*                                                                         *)
(* Byte slices are sequences over 0..255, big integers are their minimal   *)
(* big-endian byte sequences (as big.Int.Bytes returns them), strings are  *)
(* sequences of one-character strings.                                     *)
(***************************************************************************)
EXTENDS Integers, Sequences, FiniteSets, TLC

\* ------------------------------------------------------------------------
\* Bounds of the model
\* ------------------------------------------------------------------------
MaxValidators == 3

\* largest array index getStorageIndexes is called with on its own
MaxIndex == 200

\* ------------------------------------------------------------------------
\* Program constants
\* ------------------------------------------------------------------------
HashLength == 32
AddressLength == 20

validatorsSlot == 0
addressToIsValidatorSlot == 1
addressToStakedAmountSlot == 2
addressToValidatorIndexSlot == 3
stakedAmountSlot == 4
minNumValidatorSlot == 5
maxNumValidatorSlot == 6

DefaultStakedBalance ==
    <<"0","x","8","A","C","7","2","3","0","4","8","9","E","8","0","0","0","0">>

Nil == "nil"

\* ------------------------------------------------------------------------
\* Byte-slice helpers
\* ------------------------------------------------------------------------
Zeros(n) == [k \in 1..n |-> 0]

Front(s) == SubSeq(s, 1, Len(s) - 1)

Last(s) == s[Len(s)]

RECURSIVE StripZeros(_)
StripZeros(b) ==
    IF b = <<>> THEN <<>>
    ELSE IF Head(b) = 0 THEN StripZeros(Tail(b)) ELSE b

\* common.PadLeftOrTrim: keep the rightmost size bytes, or pad zeros on the left
PadLeftOrTrim(bb, size) ==
    IF Len(bb) = size THEN bb
    ELSE IF Len(bb) > size THEN SubSeq(bb, Len(bb) - size + 1, Len(bb))
    ELSE Zeros(size - Len(bb)) \o bb

\* types.BytesToHash: the rightmost HashLength bytes, right-aligned in a zero hash
BytesToHash(b) ==
    LET m == IF Len(b) < HashLength THEN Len(b) ELSE HashLength
    IN  Zeros(HashLength - m) \o SubSeq(b, Len(b) - m + 1, Len(b))

\* ------------------------------------------------------------------------
\* math/big on non-negative values
\* ------------------------------------------------------------------------
RECURSIVE NatBytes(_)
NatBytes(n) == IF n = 0 THEN <<>> ELSE Append(NatBytes(n \div 256), n % 256)

\* big.NewInt(x).Bytes() for a non-negative int64 x
NewIntBytes(x) == NatBytes(x)

RECURSIVE AddCarry(_, _, _)
AddCarry(a, b, c) ==
    IF a = <<>> /\ b = <<>> THEN (IF c = 0 THEN <<>> ELSE <<c>>)
    ELSE LET x == IF a = <<>> THEN 0 ELSE Last(a)
             y == IF b = <<>> THEN 0 ELSE Last(b)
             s == x + y + c
         IN  Append(AddCarry(IF a = <<>> THEN a ELSE Front(a),
                             IF b = <<>> THEN b ELSE Front(b),
                             s \div 256),
                    s % 256)

\* z.Add(x, y).Bytes() for non-negative x, y
BigAdd(a, b) == StripZeros(AddCarry(a, b, 0))

\* big.NewInt(0).SetBytes(buf).Bytes()
SetBytes(buf) == StripZeros(buf)

\* ------------------------------------------------------------------------
\* uint64 -> int64 -> big.Int
\* ------------------------------------------------------------------------
\* A uint64 is its 8 big-endian bytes.
Invert(b) == [k \in 1..Len(b) |-> 255 - b[k]]

\* |int64(u)| as 8 bytes: the two's-complement negation when the sign bit is set
Int64Abs(u) ==
    IF u[1] >= 128
    THEN PadLeftOrTrim(AddCarry(Invert(u), <<1>>, 0), 8)
    ELSE u

\* big.NewInt(int64(u)).Bytes(): the magnitude, without the sign
NewIntOfUint64Bytes(u) == StripZeros(Int64Abs(u))

\* ------------------------------------------------------------------------
\* hex strings
\* ------------------------------------------------------------------------
HexDigits == <<"0","1","2","3","4","5","6","7","8","9","a","b","c","d","e","f">>
HexUpper  == <<"0","1","2","3","4","5","6","7","8","9","A","B","C","D","E","F">>

HexVal(c) ==
    IF \E k \in 1..16 : HexDigits[k] = c
    THEN (CHOOSE k \in 1..16 : HexDigits[k] = c) - 1
    ELSE (CHOOSE k \in 1..16 : HexUpper[k] = c) - 1

RECURSIVE NatHex(_)
NatHex(n) == IF n = 0 THEN <<>> ELSE Append(NatHex(n \div 16), HexDigits[(n % 16) + 1])

\* hex.EncodeUint64: "0x" followed by the base-16 digits, "0x0" for zero
EncodeUint64(n) == <<"0","x">> \o (IF n = 0 THEN <<"0">> ELSE NatHex(n))

RECURSIVE Nibbles(_)
Nibbles(b) ==
    IF b = <<>> THEN <<>>
    ELSE <<HexDigits[(Head(b) \div 16) + 1], HexDigits[(Head(b) % 16) + 1]>>
         \o Nibbles(Tail(b))

RECURSIVE StripZeroDigits(_)
StripZeroDigits(s) ==
    IF s = <<>> THEN <<>>
    ELSE IF Head(s) = "0" THEN StripZeroDigits(Tail(s)) ELSE s

\* hex.EncodeBig: "0x" + b.Text(16)
EncodeBig(b) ==
    LET d == StripZeroDigits(Nibbles(b))
    IN  <<"0","x">> \o (IF d = <<>> THEN <<"0">> ELSE d)

TrimPrefix0x(str) ==
    IF Len(str) >= 2 /\ str[1] = "0" /\ str[2] = "x" THEN SubSeq(str, 3, Len(str)) ELSE str

RECURSIVE DecodeString(_)
DecodeString(s) ==
    IF Len(s) < 2 THEN <<>>
    ELSE <<HexVal(s[1]) * 16 + HexVal(s[2])>> \o DecodeString(SubSeq(s, 3, Len(s)))

\* types.StringToHash: drop "0x", left-pad to an even number of digits, decode
StringToHash(str) ==
    LET t == TrimPrefix0x(str)
        e == IF Len(t) % 2 = 1 THEN <<"0">> \o t ELSE t
    IN  BytesToHash(DecodeString(e))

\* types.ParseUint256orHex on a "0x" literal: the value in base 16
ParseUint256orHex(val) ==
    LET t == TrimPrefix0x(val)
        e == IF Len(t) % 2 = 1 THEN <<"0">> \o t ELSE t
    IN  StripZeros(DecodeString(e))

\* ------------------------------------------------------------------------
\* keccak-256, consumed as a collision-free primitive
\* ------------------------------------------------------------------------
\* keccak256 of the 32-byte zero word,
\* 0x290decd9548b62a8d60345a988386fc84ba6bc95484008f6362f93160ef3e563
KeccakOfZeroWord ==
    << 41,  13, 236, 217,  84, 139,  98, 168, 214,   3,  69, 169, 136,  56, 111, 200,
       75, 166, 188, 149,  72,  64,   8, 246,  54,  47, 147,  22,  14, 243, 229,  99 >>

\* keccak.Keccak256(nil, buf).  The digest of the zero word is the real one; for
\* the 64-byte buffers address . slot the digest is a collision-free stand-in
\* that keeps the slot byte and the address, away from every other key.
Keccak256(buf) ==
    IF buf = Zeros(32) THEN KeccakOfZeroWord
    ELSE <<160 + Last(buf)>> \o SubSeq(buf, 2, 32)

\* ------------------------------------------------------------------------
\* Storage indexes
\* ------------------------------------------------------------------------
\* mutant: the two words hashed in the wrong order, slot . address
getAddressMappingSwapped(address, slot) ==
    LET finalSlice == PadLeftOrTrim(NewIntBytes(slot), 32) \o PadLeftOrTrim(address, 32)
    IN  Keccak256(finalSlice)

getAddressMapping(address, slot) ==
    LET finalSlice == PadLeftOrTrim(address, 32) \o PadLeftOrTrim(NewIntBytes(slot), 32)
    IN  Keccak256(finalSlice)

\* mutant: the offset is dropped
getIndexWithOffsetNoAdd(keccakHash, offset) ==
    LET bigKeccak == SetBytes(keccakHash)
    IN  bigKeccak

getIndexWithOffset(keccakHash, offset) ==
    LET bigOffset == NewIntBytes(offset)
        bigKeccak == SetBytes(keccakHash)
    IN  BigAdd(bigKeccak, bigOffset)

\* mutant: the array element index is one too high
getStorageIndexesShifted(address, index) ==
    [ AddressToIsValidatorIndex    |-> getAddressMapping(address, addressToIsValidatorSlot),
      AddressToStakedAmountIndex   |-> getAddressMapping(address, addressToStakedAmountSlot),
      AddressToValidatorIndexIndex |-> getAddressMapping(address, addressToValidatorIndexSlot),
      StakedAmountIndex            |-> NewIntBytes(stakedAmountSlot),
      ValidatorsIndex              |->
          getIndexWithOffset(
              Keccak256(PadLeftOrTrim(NewIntBytes(validatorsSlot), 32)), index + 1),
      ValidatorsArraySizeIndex     |-> <<validatorsSlot>> ]

\* mutant: the staked-amount mapping key is computed with the is-validator slot
getStorageIndexesSameSlot(address, index) ==
    [ AddressToIsValidatorIndex    |-> getAddressMapping(address, addressToIsValidatorSlot),
      AddressToStakedAmountIndex   |-> getAddressMapping(address, addressToIsValidatorSlot),
      AddressToValidatorIndexIndex |-> getAddressMapping(address, addressToValidatorIndexSlot),
      StakedAmountIndex            |-> NewIntBytes(stakedAmountSlot),
      ValidatorsIndex              |->
          getIndexWithOffset(
              Keccak256(PadLeftOrTrim(NewIntBytes(validatorsSlot), 32)), index),
      ValidatorsArraySizeIndex     |-> <<validatorsSlot>> ]

getStorageIndexes(address, index) ==
    [ AddressToIsValidatorIndex    |-> getAddressMapping(address, addressToIsValidatorSlot),
      AddressToStakedAmountIndex   |-> getAddressMapping(address, addressToStakedAmountSlot),
      AddressToValidatorIndexIndex |-> getAddressMapping(address, addressToValidatorIndexSlot),
      StakedAmountIndex            |-> NewIntBytes(stakedAmountSlot),
      ValidatorsIndex              |->
          getIndexWithOffset(
              Keccak256(PadLeftOrTrim(NewIntBytes(validatorsSlot), 32)), index),
      ValidatorsArraySizeIndex     |-> <<validatorsSlot>> ]

\* ------------------------------------------------------------------------
\* Inputs
\* ------------------------------------------------------------------------
Addr(b) == [k \in 1..AddressLength |-> b]

\* 0x0000...00, 0x1111...11, 0x2222...22
Addresses == { Addr(0), Addr(17), Addr(34) }

\* an address that is never a validator: 0x3333...33
Outsider == Addr(51)

ValidatorLists == UNION { [1..n -> Addresses] : n \in 0..MaxValidators }

U64(hi, rest, lo) == <<hi>> \o [k \in 1..6 |-> rest] \o <<lo>>

\* common.MaxSafeJSInt = 2^53 - 1
MaxSafeJSInt == <<0, 31, 255, 255, 255, 255, 255, 255>>

\* 0, 1, 2^53 - 1, 2^63, 2^64 - 1
CountValues == { U64(0, 0, 0), U64(0, 0, 1), MaxSafeJSInt, U64(128, 0, 0), U64(255, 255, 255) }

PredeployParams == [MinValidatorCount : CountValues, MaxValidatorCount : CountValues]

\* ------------------------------------------------------------------------
\* The storage map, map[types.Hash]types.Hash
\* ------------------------------------------------------------------------
EmptyMap == [k \in {} |-> Zeros(HashLength)]

MapSet(m, k, v) == [x \in (DOMAIN m) \cup {k} |-> IF x = k THEN v ELSE m[x]]

\* a Go map read: the zero hash when the key has no entry
MapGet(m, k) == IF k \in DOMAIN m THEN m[k] ELSE Zeros(HashLength)

\* ------------------------------------------------------------------------
\* Values PredeployStakingSC writes
\* ------------------------------------------------------------------------
\* stakedAmount := big.NewInt(0)
InitialStakedAmount == NatBytes(0)

\* storageMap[ValidatorsIndex] = types.BytesToHash(validator.Bytes())
ValidatorsValue(validator) == BytesToHash(validator)

\* storageMap[AddressToIsValidatorIndex] = types.BytesToHash(bigTrueValue.Bytes())
IsValidatorValue == BytesToHash(NewIntBytes(1))

\* storageMap[AddressToStakedAmountIndex] =
\*     types.StringToHash(hex.EncodeBig(bigDefaultStakedBalance))
StakedAmountValue(bigDefaultStakedBalance) ==
    StringToHash(EncodeBig(bigDefaultStakedBalance))

\* storageMap[AddressToValidatorIndexIndex] =
\*     types.StringToHash(hex.EncodeUint64(uint64(indx)))
ValidatorIndexValue(i) == StringToHash(EncodeUint64(i))

\* storageMap[StakedAmountIndex] = types.BytesToHash(stakedAmount.Bytes())
TotalStakedValue(amount) == BytesToHash(amount)

\* mutant: the array size is written as indx, not indx + 1
ArraySizeValueOffByOne(i) == StringToHash(EncodeUint64(i))

\* storageMap[ValidatorsArraySizeIndex] =
\*     types.StringToHash(hex.EncodeUint64(uint64(indx + 1)))
ArraySizeValue(i) == StringToHash(EncodeUint64(i + 1))

\* types.BytesToHash(big.NewInt(int64(params.MinValidatorCount)).Bytes())
MinNumValidatorsValue(p) == BytesToHash(NewIntOfUint64Bytes(p.MinValidatorCount))

\* types.BytesToHash(big.NewInt(int64(params.MaxValidatorCount)).Bytes())
MaxNumValidatorsValue(p) == BytesToHash(NewIntOfUint64Bytes(p.MaxValidatorCount))

\* mutant: the per-validator staked amount is written as the running total
LoopBodyCumulative(m, si, validator, i, amount, bigDefaultStakedBalance) ==
    LET m1 == MapSet(m,  BytesToHash(si.ValidatorsIndex), ValidatorsValue(validator))
        m2 == MapSet(m1, BytesToHash(si.AddressToIsValidatorIndex), IsValidatorValue)
        m3 == MapSet(m2, BytesToHash(si.AddressToStakedAmountIndex),
                     StringToHash(EncodeBig(amount)))
        m4 == MapSet(m3, BytesToHash(si.AddressToValidatorIndexIndex), ValidatorIndexValue(i))
        m5 == MapSet(m4, BytesToHash(si.StakedAmountIndex), TotalStakedValue(amount))
        m6 == MapSet(m5, BytesToHash(si.ValidatorsArraySizeIndex), ArraySizeValue(i))
    IN  m6

\* mutant: a validator index already in the map is not overwritten
LoopBodyFirstIndexWins(m, si, validator, i, amount, bigDefaultStakedBalance) ==
    LET m1 == MapSet(m,  BytesToHash(si.ValidatorsIndex), ValidatorsValue(validator))
        m2 == MapSet(m1, BytesToHash(si.AddressToIsValidatorIndex), IsValidatorValue)
        m3 == MapSet(m2, BytesToHash(si.AddressToStakedAmountIndex),
                     StakedAmountValue(bigDefaultStakedBalance))
        m4 == IF BytesToHash(si.AddressToValidatorIndexIndex) \in DOMAIN m3 THEN m3
              ELSE MapSet(m3, BytesToHash(si.AddressToValidatorIndexIndex),
                          ValidatorIndexValue(i))
        m5 == MapSet(m4, BytesToHash(si.StakedAmountIndex), TotalStakedValue(amount))
        m6 == MapSet(m5, BytesToHash(si.ValidatorsArraySizeIndex), ArraySizeValue(i))
    IN  m6

\* one iteration of the loop over validators: the six writes, in program order;
\* amount is stakedAmount after this iteration's Add
LoopBody(m, si, validator, i, amount, bigDefaultStakedBalance) ==
    LET m1 == MapSet(m,  BytesToHash(si.ValidatorsIndex), ValidatorsValue(validator))
        m2 == MapSet(m1, BytesToHash(si.AddressToIsValidatorIndex), IsValidatorValue)
        m3 == MapSet(m2, BytesToHash(si.AddressToStakedAmountIndex),
                     StakedAmountValue(bigDefaultStakedBalance))
        m4 == MapSet(m3, BytesToHash(si.AddressToValidatorIndexIndex), ValidatorIndexValue(i))
        m5 == MapSet(m4, BytesToHash(si.StakedAmountIndex), TotalStakedValue(amount))
        m6 == MapSet(m5, BytesToHash(si.ValidatorsArraySizeIndex), ArraySizeValue(i))
    IN  m6

\* the keys one iteration assigns in storageMap, in program order
LoopKeys(si) ==
    << BytesToHash(si.ValidatorsIndex),
       BytesToHash(si.AddressToIsValidatorIndex),
       BytesToHash(si.AddressToStakedAmountIndex),
       BytesToHash(si.AddressToValidatorIndexIndex),
       BytesToHash(si.StakedAmountIndex),
       BytesToHash(si.ValidatorsArraySizeIndex) >>

\* the keys assigned after the loop, in program order
MinMaxKeys ==
    << BytesToHash(NewIntBytes(minNumValidatorSlot)),
       BytesToHash(NewIntBytes(maxNumValidatorSlot)) >>

\* mutant: the array length is also written after the loop
WriteMinMaxAndLength(m, p) ==
    LET m0 == MapSet(m,  BytesToHash(<<validatorsSlot>>), MapGet(m, BytesToHash(<<validatorsSlot>>)))
        m1 == MapSet(m0, BytesToHash(NewIntBytes(minNumValidatorSlot)), MinNumValidatorsValue(p))
        m2 == MapSet(m1, BytesToHash(NewIntBytes(maxNumValidatorSlot)), MaxNumValidatorsValue(p))
    IN  m2

\* the two writes after the loop
WriteMinMax(m, p) ==
    LET m1 == MapSet(m,  BytesToHash(NewIntBytes(minNumValidatorSlot)), MinNumValidatorsValue(p))
        m2 == MapSet(m1, BytesToHash(NewIntBytes(maxNumValidatorSlot)), MaxNumValidatorsValue(p))
    IN  m2

\* mutant: the balance is left at zero
AccountBalanceUnset(amount) == NatBytes(0)

\* stakingAccount.Balance = stakedAmount
AccountBalance(amount) == amount

\* ------------------------------------------------------------------------
\* Artifact files handed to GenerateGenesisAccountFromFile
\* ------------------------------------------------------------------------
ArtifactFiles ==
    [ status           : {"missing", "unreadable", "ok"},
      json             : {"malformed", "ok"},
      contractABI      : {"missing", "malformed", "ok"},
      bytecode         : {"missing", "notstring", "badhex", "ok"},
      deployedBytecode : {"missing", "notstring", "badhex", "ok"} ]

NoFile ==
    [ status |-> "missing", json |-> "malformed", contractABI |-> "missing",
      bytecode |-> "missing", deployedBytecode |-> "missing" ]

\* a nil *chain.GenesisAccount
NilAccount == [isNil |-> TRUE, Code |-> Nil, Storage |-> EmptyMap, Balance |-> <<>>]

\* nothing returned yet
NoReturn == [account |-> NilAccount, err |-> Nil]

\* new(contractArtifact)
NewArtifact == [ABI |-> Nil, Bytecode |-> Nil, DeployedBytecode |-> Nil]

\* StorageIndexes{}
NoIndexes ==
    [ AddressToIsValidatorIndex |-> <<>>, AddressToStakedAmountIndex |-> <<>>,
      AddressToValidatorIndexIndex |-> <<>>, StakedAmountIndex |-> <<>>,
      ValidatorsIndex |-> <<>>, ValidatorsArraySizeIndex |-> <<>> ]

NoParams == [MinValidatorCount |-> U64(0, 0, 0), MaxValidatorCount |-> U64(0, 0, 0)]

\* ------------------------------------------------------------------------
\* State
\* ------------------------------------------------------------------------
VARIABLES
    op,              \* the exported function being run
    pc,              \* its position
    validators,      \* PredeployStakingSC: argument
    params,          \* PredeployStakingSC: argument
    indx,            \* PredeployStakingSC: number of loop iterations done
    stakedAmount,    \* PredeployStakingSC: running total
    storageIndexes,  \* PredeployStakingSC: indexes of the last iteration
    storageMap,      \* PredeployStakingSC: map being built
    written,         \* PredeployStakingSC: keys assigned in storageMap, in program order
    file,            \* GenerateGenesisAccountFromFile: the file at filepath
    paramsMatch,     \* GenerateGenesisAccountFromFile: constructorParams fit the constructor
    artifact,        \* GenerateGenesisAccountFromFile: loaded contractArtifact
    customBytecode,  \* GenerateGenesisAccountFromFile: result of encodeCustomConstructor
    deployedCode,    \* code handed to state.GenerateContractAccount
    ret              \* the returned (account, error) pair

vars == << op, pc, validators, params, indx, stakedAmount, storageIndexes, storageMap, written,
           file, paramsMatch, artifact, customBytecode, deployedCode, ret >>

predeployVars ==
    << validators, params, indx, stakedAmount, storageIndexes, storageMap, written >>

generateVars == << file, paramsMatch, artifact, customBytecode, deployedCode >>

bigDefaultStakedBalance == ParseUint256orHex(DefaultStakedBalance)

InitPredeploy ==
    /\ op = "PredeployStakingSC"
    /\ pc = "loop"
    /\ validators \in ValidatorLists
    /\ params \in PredeployParams
    /\ indx = 0
    /\ stakedAmount = InitialStakedAmount
    /\ storageIndexes = NoIndexes
    /\ storageMap = EmptyMap
    /\ written = <<>>
    /\ file = NoFile
    /\ paramsMatch = TRUE
    /\ artifact = NewArtifact
    /\ customBytecode = Nil
    /\ deployedCode = "none"
    /\ ret = NoReturn

InitGenerate ==
    /\ op = "GenerateGenesisAccountFromFile"
    /\ pc = "load"
    /\ validators = <<>>
    /\ params = NoParams
    /\ indx = 0
    /\ stakedAmount = InitialStakedAmount
    /\ storageIndexes = NoIndexes
    /\ storageMap = EmptyMap
    /\ written = <<>>
    /\ file \in ArtifactFiles
    /\ paramsMatch \in BOOLEAN
    /\ artifact = NewArtifact
    /\ customBytecode = Nil
    /\ deployedCode = "none"
    /\ ret = NoReturn

\* getStorageIndexes called on its own, for one address and growing indexes
InitResolve ==
    /\ op = "getStorageIndexes"
    /\ pc = "resolve"
    /\ validators \in [1..1 -> Addresses]
    /\ params = NoParams
    /\ indx = 0
    /\ stakedAmount = InitialStakedAmount
    /\ storageIndexes = NoIndexes
    /\ storageMap = EmptyMap
    /\ written = <<>>
    /\ file = NoFile
    /\ paramsMatch = TRUE
    /\ artifact = NewArtifact
    /\ customBytecode = Nil
    /\ deployedCode = "none"
    /\ ret = NoReturn

Init == InitPredeploy \/ InitGenerate \/ InitResolve

\* ------------------------------------------------------------------------
\* PredeployStakingSC
\* ------------------------------------------------------------------------
\* one pass through the body of "for indx, validator := range validators"
LoopIter ==
    /\ op = "PredeployStakingSC"
    /\ pc = "loop"
    /\ indx < Len(validators)
    /\ LET validator == validators[indx + 1]
           amount    == BigAdd(stakedAmount, bigDefaultStakedBalance)
           si        == getStorageIndexes(validator, indx)
       IN  /\ stakedAmount' = amount
           /\ storageIndexes' = si
           /\ storageMap' = LoopBody(storageMap, si, validator, indx, amount,
                                     bigDefaultStakedBalance)
           /\ written' = written \o LoopKeys(si)
    /\ indx' = indx + 1
    /\ UNCHANGED << op, pc, validators, params, ret >>
    /\ UNCHANGED generateVars

\* the statements after the loop, up to "return stakingAccount, nil"
Finish ==
    /\ op = "PredeployStakingSC"
    /\ pc = "loop"
    /\ indx = Len(validators)
    /\ storageMap' = WriteMinMax(storageMap, params)
    /\ written' = written \o MinMaxKeys
    /\ ret' = [ account |-> [ isNil   |-> FALSE,
                              Code    |-> "StakingSCBytecode",
                              Storage |-> storageMap',
                              Balance |-> AccountBalance(stakedAmount) ],
                err |-> Nil ]
    /\ pc' = "done"
    /\ UNCHANGED << op, validators, params, indx, stakedAmount, storageIndexes >>
    /\ UNCHANGED generateVars

\* ------------------------------------------------------------------------
\* getStorageIndexes
\* ------------------------------------------------------------------------
\* getStorageIndexes(address, index) for the next index
ResolveIndexes ==
    /\ op = "getStorageIndexes"
    /\ pc = "resolve"
    /\ indx <= MaxIndex
    /\ storageIndexes' = getStorageIndexes(validators[1], indx)
    /\ indx' = indx + 1
    /\ UNCHANGED << op, pc, validators, params, stakedAmount, storageMap, written, ret >>
    /\ UNCHANGED generateVars

\* ------------------------------------------------------------------------
\* GenerateGenesisAccountFromFile
\* ------------------------------------------------------------------------
ReturnError(e) ==
    /\ ret' = [account |-> NilAccount, err |-> e]
    /\ pc' = "done"
    /\ UNCHANGED << artifact >>

Panic ==
    /\ pc' = "panic"
    /\ UNCHANGED << ret, artifact >>

\* generateContractArtifact / loadFromFile, and the error check of its caller
LoadFromFile ==
    /\ op = "GenerateGenesisAccountFromFile"
    /\ pc = "load"
    /\ \/ /\ file.status = "missing"
          /\ ReturnError("os.Open")
       \/ /\ file.status = "unreadable"
          /\ ReturnError("ioutil.ReadAll")
       \/ /\ file.status = "ok"
          /\ file.json = "malformed"
          /\ ReturnError("json.Unmarshal")
       \/ /\ file.status = "ok"
          /\ file.json = "ok"
          /\ file.contractABI = "missing"
          /\ Panic
       \/ /\ file.status = "ok"
          /\ file.json = "ok"
          /\ file.contractABI # "missing"
          /\ file.bytecode \in {"missing", "notstring"}
          /\ Panic
       \/ /\ file.status = "ok"
          /\ file.json = "ok"
          /\ file.contractABI # "missing"
          /\ file.bytecode = "badhex"
          /\ ReturnError("hex.DecodeString")
       \/ /\ file.status = "ok"
          /\ file.json = "ok"
          /\ file.contractABI # "missing"
          /\ file.bytecode = "ok"
          /\ file.deployedBytecode \in {"missing", "notstring"}
          /\ Panic
       \/ /\ file.status = "ok"
          /\ file.json = "ok"
          /\ file.contractABI # "missing"
          /\ file.bytecode = "ok"
          /\ file.deployedBytecode = "badhex"
          /\ ReturnError("hex.DecodeString")
       \/ /\ file.status = "ok"
          /\ file.json = "ok"
          /\ file.contractABI # "missing"
          /\ file.bytecode = "ok"
          /\ file.deployedBytecode = "ok"
          /\ artifact' = [ ABI |-> file.contractABI,
                           Bytecode |-> "bytecode",
                           DeployedBytecode |-> "deployedBytecode" ]
          /\ pc' = "encode"
          /\ UNCHANGED ret
    /\ UNCHANGED << op, file, paramsMatch, customBytecode, deployedCode >>
    /\ UNCHANGED predeployVars

\* artifact.encodeCustomConstructor(constructorParams): nil when abi.NewABI or
\* abi.Encode fails, else the bytecode with the encoded arguments appended
encodeCustomConstructor(a, match) ==
    IF a.ABI = "malformed" THEN Nil
    ELSE IF ~match THEN Nil
    ELSE "bytecode+constructor"

EncodeConstructor ==
    /\ op = "GenerateGenesisAccountFromFile"
    /\ pc = "encode"
    /\ customBytecode' = encodeCustomConstructor(artifact, paramsMatch)
    /\ pc' = "account"
    /\ UNCHANGED << op, file, paramsMatch, artifact, deployedCode, ret >>
    /\ UNCHANGED predeployVars

\* state.GenerateContractAccount(config, state, address, customBytecode) and the
\* return of its result; the callee may fail or produce an account
GenerateContractAccount ==
    /\ op = "GenerateGenesisAccountFromFile"
    /\ pc = "account"
    /\ deployedCode' = customBytecode
    /\ \/ ret' = [ account |-> [ isNil |-> FALSE, Code |-> customBytecode,
                                 Storage |-> EmptyMap, Balance |-> <<>> ],
                   err |-> Nil ]
       \/ ret' = [ account |-> NilAccount, err |-> "unable to generate contract account" ]
    /\ pc' = "done"
    /\ UNCHANGED << op, file, paramsMatch, artifact, customBytecode >>
    /\ UNCHANGED predeployVars

\* ------------------------------------------------------------------------
\* Specification
\* ------------------------------------------------------------------------
Next ==
    \/ LoopIter
    \/ Finish
    \/ ResolveIndexes
    \/ LoadFromFile
    \/ EncodeConstructor
    \/ GenerateContractAccount

Spec == Init /\ [][Next]_vars

\* ------------------------------------------------------------------------
\* Reference values for the properties, computed apart from the program
\* ------------------------------------------------------------------------
\* 10 ETH = 10^19 = 0x8AC7230489E80000
TenEther == <<138, 199, 35, 4, 137, 232, 0, 0>>

\* a non-negative integer given by its bytes, as a 32-byte big-endian word
Word(b) == Zeros(32 - Len(b)) \o b

NatWord(n) == Word(NatBytes(n))

RECURSIVE MulCarry(_, _, _)
MulCarry(b, k, c) ==
    IF b = <<>> THEN NatBytes(c)
    ELSE LET p == Last(b) * k + c
         IN  Append(MulCarry(Front(b), k, p \div 256), p % 256)

\* the bytes of b times the small number k
Times(b, k) == StripZeros(MulCarry(b, k, 0))

\* the successor of a 32-byte word, modulo 2^256
RECURSIVE Inc32(_)
Inc32(w) ==
    IF w = <<>> THEN <<>>
    ELSE IF Last(w) = 255 THEN Append(Inc32(Front(w)), 0)
    ELSE Append(Front(w), Last(w) + 1)

RECURSIVE PlusNat32(_, _)
PlusNat32(w, n) == IF n = 0 THEN w ELSE Inc32(PlusNat32(w, n - 1))

\* a < b for byte sequences of the same length read as unsigned integers
RECURSIVE LessSameLen(_, _)
LessSameLen(a, b) ==
    IF a = <<>> THEN FALSE
    ELSE IF Head(a) # Head(b) THEN Head(a) < Head(b)
    ELSE LessSameLen(Tail(a), Tail(b))

\* a < b for byte sequences read as unsigned integers
LessUnsigned(a, b) ==
    LET n == IF Len(a) > Len(b) THEN Len(a) ELSE Len(b)
    IN  LessSameLen(Zeros(n - Len(a)) \o a, Zeros(n - Len(b)) \o b)

ArrayLengthKey == NatWord(0)
AggregateStakeKey == NatWord(4)
MinCountKey == NatWord(5)
MaxCountKey == NatWord(6)

\* key of mapping slot s for address a: keccak(pad32(a) . pad32(s))
MappingKey(a, s) == Keccak256((Zeros(12) \o a) \o NatWord(s))

\* key of element i of the array at slot 0: keccak(pad32(0)) + i
ElementKey(i) == PlusNat32(KeccakOfZeroWord, i)

Holds(m, k, v) == k \in DOMAIN m /\ m[k] = v

InList(a) == \E k \in 1..Len(validators) : validators[k] = a

Predeploying == op = "PredeployStakingSC"

Returned == Predeploying /\ pc = "done"

AfterIteration == Predeploying /\ pc = "loop" /\ indx >= 1

\* ------------------------------------------------------------------------
\* Properties
\* ------------------------------------------------------------------------

\* C1: immediately after the loop iteration for the validator at index i
\* (indx = i + 1), the storage map holds i + 1 at the array-length key,
\* (i + 1) x DefaultStakedBalance at the aggregate-stake key and i at that
\* validator's validator-index mapping key.
C1_PrefixSnapshot ==
    AfterIteration =>
        LET i == indx - 1
        IN  /\ Holds(storageMap, ArrayLengthKey, NatWord(i + 1))
            /\ Holds(storageMap, AggregateStakeKey, Word(Times(TenEther, i + 1)))
            /\ Holds(storageMap, MappingKey(validators[i + 1], 3), NatWord(i))

C1_Witness ==
    /\ AfterIteration
    /\ indx >= 2
    /\ indx < Len(validators)
    /\ validators[indx] = validators[1]

\* C2: in the returned storage map the array-length value is N and the
\* array-element key of every index i < N holds the address of the validator
\* at position i of the input list.
C2_ArrayContents ==
    Returned =>
        /\ ret.err = Nil
        /\ ~ret.account.isNil
        /\ MapGet(ret.account.Storage, ArrayLengthKey) = NatWord(Len(validators))
        /\ \A i \in 0..(Len(validators) - 1) :
               Holds(ret.account.Storage, ElementKey(i), Word(validators[i + 1]))

C2_Witness ==
    /\ Returned
    /\ Len(validators) >= 3
    /\ validators[1] # validators[2]
    /\ validators[3] = validators[1]

\* C3: the returned account's Balance is N x DefaultStakedBalance, the value
\* at the aggregate-stake key is N x DefaultStakedBalance, and the two agree
\* (N >= 0; for N = 0 the key has no entry and reads as the zero word).
C3_BalanceIsTotalStake ==
    Returned =>
        LET total == Times(TenEther, Len(validators))
        IN  /\ ret.account.Balance = total
            /\ MapGet(ret.account.Storage, AggregateStakeKey) = Word(total)
            /\ Word(ret.account.Balance) = MapGet(ret.account.Storage, AggregateStakeKey)

C3_Witness ==
    /\ Returned
    /\ Len(validators) >= 3
    /\ ret.account.Balance = <<1, 160, 85, 105, 13, 157, 184, 0, 0>>

\* C4 as stated: for the empty validator list the account has balance 0 and
\* its storage map consists of the min-count entry, the max-count entry and
\* an array-length entry of 0.
C4_AsStated ==
    (Returned /\ validators = <<>>) =>
        /\ ret.account.Balance = NatBytes(0)
        /\ DOMAIN ret.account.Storage = {MinCountKey, MaxCountKey, ArrayLengthKey}
        /\ Holds(ret.account.Storage, ArrayLengthKey, NatWord(0))

\* C4 (amended): for the empty validator list the account has balance 0 and
\* its storage map has exactly two entries, the min-count and the max-count
\* one; the array-length key has no entry, so the length is 0 only as the
\* value a missing key reads as.
C4_EmptyList ==
    (Returned /\ validators = <<>>) =>
        /\ ret.account.Balance = NatBytes(0)
        /\ DOMAIN ret.account.Storage = {MinCountKey, MaxCountKey}
        /\ ArrayLengthKey \notin DOMAIN ret.account.Storage
        /\ MapGet(ret.account.Storage, ArrayLengthKey) = NatWord(0)

C4_Witness ==
    /\ Returned
    /\ validators = <<>>
    /\ Cardinality(DOMAIN ret.account.Storage) = 2

\* C5: in the returned storage map the is-validator key of every address in
\* the list holds 1 (true), and the is-validator key of an address that is
\* not in the list has no entry.
C5_IsValidatorFlags ==
    Returned =>
        \A a \in Addresses \cup {Outsider} :
            IF InList(a)
            THEN Holds(ret.account.Storage, MappingKey(a, 1), NatWord(1))
            ELSE MappingKey(a, 1) \notin DOMAIN ret.account.Storage

C5_Witness ==
    /\ Returned
    /\ Len(validators) >= 2
    /\ \E a \in Addresses : InList(a)
    /\ \E a \in Addresses : ~InList(a)

Generating == op = "GenerateGenesisAccountFromFile"

\* the file is missing, is not valid JSON, or lacks one of the three fields
ArtifactLoadFails ==
    \/ file.status = "missing"
    \/ file.status = "ok" /\ file.json = "malformed"
    \/ /\ file.status = "ok"
       /\ file.json = "ok"
       /\ \/ file.contractABI = "missing"
          \/ file.bytecode = "missing"
          \/ file.deployedBytecode = "missing"

\* C6: when artifact loading fails because the file is missing, is not valid
\* JSON or lacks one of contractABI, bytecode, deployedBytecode,
\* GenerateGenesisAccountFromFile returns an error and a nil account, and
\* never panics.
C6_LoadErrorsReturned ==
    (Generating /\ ArtifactLoadFails) =>
        /\ pc \in {"load", "done"}
        /\ pc = "done" => (ret.account.isNil /\ ret.err # Nil)

\* the constructor encoding has failed: encodeCustomConstructor returned nil
EncodingFailed ==
    /\ Generating
    /\ pc \in {"account", "done"}
    /\ (artifact.ABI = "malformed" \/ ~paramsMatch)

\* C7: when constructor encoding fails, GenerateGenesisAccountFromFile returns
\* an error and no account, and never hands the failed (nil) bytecode on to
\* build a contract account.
C7_EncodingErrorsReturned ==
    EncodingFailed =>
        /\ deployedCode = "none"
        /\ pc = "done" => (ret.account.isNil /\ ret.err # Nil)

Resolving == op = "getStorageIndexes"

\* C8: the array-element key of index 0 is keccak(pad32(0)); from one index
\* to the next the key grows, as an unsigned integer, by exactly 1 (so it is
\* strictly increasing), both as returned by getIndexWithOffset and as the
\* 32-byte key it is normalized to when written into the storage map.
C8_ConsecutiveElementKeys ==
    [][ ((Predeploying \/ Resolving) /\ indx' = indx + 1) =>
            LET raw == storageIndexes'.ValidatorsIndex
                key == BytesToHash(raw)
            IN  /\ indx = 0 => (raw = KeccakOfZeroWord /\ key = KeccakOfZeroWord)
                /\ indx >= 1 =>
                       LET prevRaw == storageIndexes.ValidatorsIndex
                           prevKey == BytesToHash(prevRaw)
                       IN  /\ LessUnsigned(prevRaw, raw)
                           /\ LessUnsigned(prevKey, key)
                           /\ Word(raw) = Inc32(Word(prevRaw))
                           /\ key = Inc32(prevKey)
                           /\ Predeploying => prevKey \in DOMAIN storageMap'
                /\ Predeploying => key \in DOMAIN storageMap'
      ]_vars

\* the addition has carried out of the lowest byte of the digest
C8_Witness ==
    /\ Resolving
    /\ indx >= 158
    /\ BytesToHash(storageIndexes.ValidatorsIndex) = ElementKey(indx - 1)
    /\ Last(storageIndexes.ValidatorsIndex) < Last(KeccakOfZeroWord)

\* C9: for every uint64 MinValidatorCount and MaxValidatorCount, the returned
\* storage map holds exactly MinValidatorCount at the slot-5 key and exactly
\* MaxValidatorCount at the slot-6 key, whatever the validator list is.
C9_MinMaxStored ==
    Returned =>
        /\ Holds(ret.account.Storage, MinCountKey, Word(params.MinValidatorCount))
        /\ Holds(ret.account.Storage, MaxCountKey, Word(params.MaxValidatorCount))

\* C10: in the returned storage map the staked-amount key of every validator
\* holds DefaultStakedBalance, whatever its position, and not the cumulative
\* total of the aggregate-stake key (which differs as soon as there are two
\* validators).
C10_PerValidatorStake ==
    Returned =>
        \A k \in 1..Len(validators) :
            /\ Holds(ret.account.Storage, MappingKey(validators[k], 2), Word(TenEther))
            /\ Len(validators) >= 2 =>
                   ret.account.Storage[MappingKey(validators[k], 2)]
                       # MapGet(ret.account.Storage, AggregateStakeKey)

C10_Witness ==
    /\ Returned
    /\ Len(validators) >= 3
    /\ Holds(ret.account.Storage, MappingKey(validators[3], 2), Word(TenEther))
    /\ validators[3] # validators[1]

\* how many times key k has been assigned in storageMap
WriteCount(k) == Cardinality({ n \in 1..Len(written) : written[n] = k })

WrittenKeys == { written[n] : n \in 1..Len(written) }

PairwiseDistinct ==
    \A i, j \in 1..Len(validators) : i # j => validators[i] # validators[j]

\* array element, is-validator, staked-amount and validator-index key of position i
PerValidatorKeys(i) ==
    { ElementKey(i),
      MappingKey(validators[i + 1], 1),
      MappingKey(validators[i + 1], 2),
      MappingKey(validators[i + 1], 3) }

AllPerValidatorKeys == UNION { PerValidatorKeys(i) : i \in 0..(Len(validators) - 1) }

ScalarKeys == {ArrayLengthKey, AggregateStakeKey, MinCountKey, MaxCountKey}

\* C11: for N >= 1 pairwise distinct validator addresses the only keys
\* assigned more than once are the aggregate-stake and the array-length key
\* (once per iteration); every per-validator key is assigned exactly once and
\* differs from every other key, and the returned map has exactly 4N + 4
\* entries.
C11_KeysWrittenOnce ==
    (Returned /\ Len(validators) >= 1 /\ PairwiseDistinct) =>
        LET N == Len(validators)
        IN  /\ \A k \in WrittenKeys :
                   WriteCount(k) > 1 => k \in {AggregateStakeKey, ArrayLengthKey}
            /\ WriteCount(AggregateStakeKey) = N
            /\ WriteCount(ArrayLengthKey) = N
            /\ \A k \in AllPerValidatorKeys : WriteCount(k) = 1
            /\ Cardinality(AllPerValidatorKeys) = 4 * N
            /\ AllPerValidatorKeys \cap ScalarKeys = {}
            /\ DOMAIN ret.account.Storage = WrittenKeys
            /\ DOMAIN ret.account.Storage = AllPerValidatorKeys \cup ScalarKeys
            /\ Cardinality(DOMAIN ret.account.Storage) = 4 * N + 4

C11_Witness ==
    /\ Returned
    /\ Len(validators) = 3
    /\ PairwiseDistinct
    /\ WriteCount(AggregateStakeKey) = 3
    /\ Cardinality(DOMAIN ret.account.Storage) = 16

HasDuplicate ==
    \E i, j \in 1..Len(validators) : i # j /\ validators[i] = validators[j]

Occurrences(a) == Cardinality({ i \in 1..Len(validators) : validators[i] = a })

\* 0-based index of the last position holding address a
LastIndexOf(a) ==
    (CHOOSE i \in 1..Len(validators) :
        /\ validators[i] = a
        /\ \A j \in (i + 1)..Len(validators) : validators[j] # a) - 1

\* C12: when an address occurs at several positions, an account and no error
\* are returned; its mapping entries are assigned once per occurrence, later
\* over earlier, so its validator-index value is the index of the last
\* occurrence; the array length, the aggregate stake and the balance count
\* every occurrence, and each array-element key holds the address of its
\* position.
C12_DuplicatesOverwrite ==
    (Returned /\ HasDuplicate) =>
        LET N == Len(validators)
            storage == ret.account.Storage
        IN  /\ ~ret.account.isNil
            /\ ret.err = Nil
            /\ \A a \in Addresses : InList(a) =>
                   /\ Holds(storage, MappingKey(a, 3), NatWord(LastIndexOf(a)))
                   /\ \A slot \in 1..3 : WriteCount(MappingKey(a, slot)) = Occurrences(a)
            /\ Holds(storage, ArrayLengthKey, NatWord(N))
            /\ Holds(storage, AggregateStakeKey, Word(Times(TenEther, N)))
            /\ ret.account.Balance = Times(TenEther, N)
            /\ \A i \in 0..(N - 1) : Holds(storage, ElementKey(i), Word(validators[i + 1]))
            /\ Cardinality(DOMAIN storage) < 4 * N + 4

C12_Witness ==
    /\ Returned
    /\ Len(validators) = 3
    /\ validators[1] = validators[3]
    /\ validators[2] # validators[1]
    /\ Holds(ret.account.Storage, MappingKey(validators[1], 3), NatWord(2))
    /\ WriteCount(MappingKey(validators[1], 3)) = 2

====
